---- MODULE Spec2Model ----
(***************************************************************************)
(* Model of capnpy's struct-constructor compiler (compiler/structor.py)    *)
(* and of its buffered socket reader (buffered.py).                        *)
(*                                                                         *)
(* Structor: a record description (fields, data_size, ptrs_size, tag) is   *)
(* flattened into low-level fields, a struct format is computed, a         *)
(* constructor is emitted as a list of statements, and the emitted         *)
(* constructor is then invoked on arguments.                               *)
(***************************************************************************)
EXTENDS Integers, Sequences, FiniteSets, TLC

(***************************************************************************)
(* Python values handled by the generated constructor.  Every value has    *)
(* the same record shape: t is the Python type, n an integer payload and   *)
(* s the items of a tuple (or the value wrapped by a builder placeholder). *)
(***************************************************************************)
IntV(n) == [t |-> "int", n |-> n, s |-> <<>>]

NoneV == [t |-> "NoneType", n |-> 0, s |-> <<>>]

StrV(n) == [t |-> "str", n |-> n, s |-> <<>>]

\* the Python float n + 0.5
FloatV(n) == [t |-> "float", n |-> n, s |-> <<>>]

TupV(items) == [t |-> "tuple", n |-> 0, s |-> items]

\* what builder.alloc_text/alloc_data/alloc_struct/alloc_list hand back:
\* a placeholder for the final pack that remembers the offset and the value
AllocV(kind, offset, v) == [t |-> kind, n |-> offset, s |-> <<v>>]

(***************************************************************************)
(* schema.Field objects.  kind is "slot" or "group"; a void field is a     *)
(* slot of type void; a group refers to its node by typeId.                *)
(***************************************************************************)
Slot(name, type, offset, hadExplicitDefault, defaultValue) ==
    [name |-> name, kind |-> "slot", type |-> type, offset |-> offset,
     hadExplicitDefault |-> hadExplicitDefault, defaultValue |-> defaultValue,
     typeId |-> 0, nullable |-> FALSE]

Group(name, typeId, nullable) ==
    [name |-> name, kind |-> "group", type |-> "group", offset |-> 0,
     hadExplicitDefault |-> FALSE, defaultValue |-> NoneV,
     typeId |-> typeId, nullable |-> nullable]

is_group(f) == f.kind = "group"

is_slot(f) == f.kind = "slot"

is_void(f) == is_slot(f) /\ f.type = "void"

is_bool(f) == is_slot(f) /\ f.type = "bool"

is_text(f) == is_slot(f) /\ f.type = "text"

is_data(f) == is_slot(f) /\ f.type = "data"

is_struct(f) == is_slot(f) /\ f.type = "struct"

is_list(f) == is_slot(f) /\ f.type = "list"

is_enum(f) == is_slot(f) /\ f.type = "enum"

is_primitive(f) == is_slot(f) /\ f.type \in {"bool", "int8", "int16", "int32", "int64", "float32", "float64"}

is_pointer(f) == f.type \in {"text", "data", "struct", "list", "anyPointer"}

is_nullable(f) == is_group(f) /\ f.nullable

\* slot.get_fmt(): the struct code of the slot's type
get_fmt(f) ==
    CASE f.type = "int8" -> "b"
      [] f.type = "int16" -> "h"
      [] f.type = "enum" -> "h"
      [] f.type = "int32" -> "i"
      [] f.type = "int64" -> "q"
      [] f.type = "float32" -> "f"
      [] f.type = "float64" -> "d"
      [] is_pointer(f) -> "q"
      [] OTHER -> ""

\* struct.calcsize of one format code
CodeSize(t) ==
    CASE t = "x" -> 1
      [] t = "b" -> 1
      [] t = "h" -> 2
      [] t = "i" -> 4
      [] t = "q" -> 8
      [] t = "f" -> 4
      [] t = "d" -> 8
      [] OTHER -> 0

\* slot.get_size(): the size in bytes of the slot's type
get_size(f) == CodeSize(get_fmt(f))

\* m._field_name(f)
field_name(f) == f.name

\* f.shortrepr(), the text that identifies a field in a diagnostic
shortrepr(f) == f.name \o ": " \o f.type

\* str(f.slot.defaultValue.as_pyobj()) as read back by the def statement
default_literal(f) == f.defaultValue

(***************************************************************************)
(* The schema the records are drawn from.  Data section (bytes):           *)
(*   0..3 x   4..5 y   6 x (int8)   7 y (bool, bit 56)   8..9 g.a           *)
(*   10..11 __which__   12 n.is_null   14..15 n.value                      *)
(*   16..23 u.circle, 16..19 u.square (members of one union)   32..39 f    *)
(* Pointer section (words): 0 t, 1 g.l, 2 g.d, 3 s, 4 p                    *)
(* The group address is the one of the schema of test_fieldtree.py.        *)
(* Two fields are named x and two are named y: m._field_name may map       *)
(* different schema names to one Python name.                              *)
(***************************************************************************)
F_x == Slot("x", "int32", 0, FALSE, IntV(0))

F_y == Slot("y", "int16", 2, TRUE, IntV(5))

F_x2 == Slot("x", "int8", 6, FALSE, IntV(0))

F_b == Slot("y", "bool", 56, FALSE, IntV(0))

F_f == Slot("f", "float64", 4, TRUE, FloatV(3))

F_v == Slot("v", "void", 0, FALSE, NoneV)

F_t == Slot("t", "text", 0, TRUE, StrV(1))

F_s == Slot("s", "struct", 3, FALSE, NoneV)

F_p == Slot("p", "anyPointer", 4, FALSE, NoneV)

F_g == Group("g", 1, FALSE)

F_n == Group("n", 2, TRUE)

F_u == Group("u", 3, FALSE)

F_address == Group("address", 4, FALSE)

G_a == Slot("a", "enum", 4, TRUE, IntV(42))

G_w == Slot("w", "void", 0, FALSE, NoneV)

G_l == Slot("l", "list", 1, FALSE, NoneV)

G_d == Slot("d", "data", 2, FALSE, NoneV)

N_is_null == Slot("is_null", "int8", 12, FALSE, IntV(0))

N_value == Slot("value", "int16", 7, FALSE, IntV(0))

U_circle == Slot("circle", "int64", 2, FALSE, IntV(0))

U_square == Slot("square", "int32", 4, FALSE, IntV(0))

A_street == Slot("street", "text", 2, FALSE, NoneV)

A_position == Group("position", 5, FALSE)

P_x == Slot("x", "int64", 0, TRUE, IntV(42))

P_y == Slot("y", "int64", 1, FALSE, IntV(0))

\* m.allnodes[typeId].struct.fields
allnodes(typeId) ==
    CASE typeId = 1 -> <<G_a, G_w, G_l, G_d>>
      [] typeId = 2 -> <<N_is_null, N_value>>
      [] typeId = 3 -> <<U_circle, U_square>>
      [] typeId = 4 -> <<A_street, A_position>>
      [] typeId = 5 -> <<P_x, P_y>>
      [] OTHER -> <<>>

TopFields == {F_x, F_y, F_x2, F_b, F_f, F_v, F_t, F_s, F_p, F_g, F_n, F_u, F_address}

(***************************************************************************)
(* Optional values (None or a value) are sequences of length 0 or 1.       *)
(***************************************************************************)
None == <<>>

Some(v) == <<v>>

\* the bounds of the model: the fields of a record, the bytes the socket
\* delivers in all, the bytes of one recv (bufsize), the size of a read
MaxFields == 2

MaxStream == 4

MaxChunk == 2

MaxRead == 3

\* how many words a section may be declared larger than its fields need
SlackChoices == {0, 1}

VARIABLES
    data_size, ptrs_size, fields, tag_offset, tag_value, \* arguments of Structor()
    argnames, params, llfields, llname, groups,          \* self.*
    fmt, unsupported,                                    \* self.fmt, self._unsupported
    ctor,                                                \* what declare() emitted
    call,                                                \* the last invocation of the constructor
    pc, raised,                                          \* progress; the exception that escaped
    buf, i,                                              \* BufferedSocket: self.buf, self.i
    recvd, returned, closed                              \* all sock.recv gave, all read/readline gave, EOF seen

svars == <<data_size, ptrs_size, fields, tag_offset, tag_value, argnames, params,
           llfields, llname, groups, fmt, unsupported, ctor, call, pc, raised>>

bvars == <<buf, i, recvd, returned, closed>>

vars == <<svars, bvars>>

(***************************************************************************)
(* Structor.init_fields and its helpers, on a record self of the fields    *)
(* they assign.                                                            *)
(***************************************************************************)
EmptySelf == [argnames |-> <<>>, params |-> <<>>, llfields |-> <<>>,
              llname |-> [f \in {} |-> ""], groups |-> <<>>, ret |-> ""]

\* def _append_field(self, f, prefix=None)
_append_field(self, f, prefix) ==
    LET name == IF prefix # "" THEN prefix \o "_" \o field_name(f) ELSE field_name(f)
    IN [self EXCEPT !.llfields = Append(@, f),
                    !.llname = (f :> name) @@ @,
                    !.ret = name]

RECURSIVE append_group_loop(_, _, _, _)
\* the loop over group.struct.fields of _append_group
append_group_loop(self, groupname, gfields, k) ==
    IF k > Len(gfields) THEN self
    ELSE LET f == gfields[k]
         IN IF is_void(f) THEN append_group_loop(self, groupname, gfields, k + 1)
            ELSE append_group_loop(
                     [self EXCEPT !.llfields = Append(@, f),
                                  !.llname = (f :> (groupname \o "_" \o field_name(f))) @@ @],
                     groupname, gfields, k + 1)

\* def _append_group(self, f)
_append_group(self, f) ==
    LET groupname == field_name(f)
        group == allnodes(f.typeId)
        s1 == [self EXCEPT !.groups = Append(@, <<f, groupname, group>>)]
    IN [append_group_loop(s1, groupname, group, 1) EXCEPT !.ret = groupname]

RECURSIVE init_fields_loop(_, _, _, _)
\* the loop over fields of init_fields; defaults is its local list
init_fields_loop(self, defaults, fs, k) ==
    IF k > Len(fs) THEN [self EXCEPT !.params = [j \in 1..Len(self.argnames) |->
                                                    <<self.argnames[j], defaults[j]>>]]
    ELSE LET f == fs[k]
         IN IF is_group(f)
            THEN LET s1 == _append_group(self, f)
                 IN init_fields_loop([s1 EXCEPT !.argnames = Append(@, s1.ret)],
                                     Append(defaults, NoneV), fs, k + 1)
            ELSE LET s1 == _append_field(self, f, "")
                 IN init_fields_loop([s1 EXCEPT !.argnames = Append(@, s1.ret)],
                                     Append(defaults, default_literal(f)), fs, k + 1)

\* Field.new_slot('__which__', tag_offset/2, Type.new_int16())
tag_field(toff) == Slot("__which__", "int16", toff \div 2, FALSE, IntV(0))

\* def init_fields(self, fields)
init_fields(self, fs, toff) ==
    LET s1 == init_fields_loop(self, <<>>, fs, 1)
    IN IF toff # None THEN _append_field(s1, tag_field(toff[1]), "") ELSE s1

(***************************************************************************)
(* Structor._slot_offset and Structor._compute_format                      *)
(***************************************************************************)
\* def _slot_offset(self, f)
_slot_offset(f, dsize) ==
    LET offset == f.offset * get_size(f)
    IN IF is_pointer(f) THEN offset + dsize * 8 ELSE offset

\* the local function set(offset, t) of _compute_format on the list fmt;
\* assigning past the end of a list raises IndexError
set(fm, offset, t) ==
    LET size == CodeSize(t)
    IN IF offset + 1 > Len(fm) \/ offset + size > Len(fm)
       THEN [exc |-> "IndexError", fmt |-> fm]
       ELSE [exc |-> "",
             fmt |-> [j \in 1..Len(fm) |->
                         IF j = offset + 1 THEN t
                         ELSE IF j > offset + 1 /\ j <= offset + size THEN "None"
                         ELSE fm[j]]]

RECURSIVE compute_format_loop(_, _, _, _)
\* the loop over self.llfields of _compute_format
compute_format_loop(fm, lls, dsize, k) ==
    IF k > Len(lls) THEN [exc |-> "", fmt |-> fm, msg |-> ""]
    ELSE LET f == lls[k]
         IN IF ~is_slot(f) \/ is_bool(f)
            THEN [exc |-> "Unsupported", fmt |-> fm,
                  msg |-> "Unsupported field type: " \o shortrepr(f)]
            ELSE IF is_void(f) THEN compute_format_loop(fm, lls, dsize, k + 1)
            ELSE LET r == set(fm, _slot_offset(f, dsize), get_fmt(f))
                 IN IF r.exc # "" THEN [exc |-> r.exc, fmt |-> r.fmt, msg |-> ""]
                    ELSE compute_format_loop(r.fmt, lls, dsize, k + 1)

RECURSIVE calcsize_from(_, _, _)
\* struct.calcsize(fmt) in native mode, from the k-th code on, pos bytes so far:
\* a pad byte counts one, every other code is first aligned to its own size
calcsize_from(fm, k, pos) ==
    LET codes == {j \in k..Len(fm) : fm[j] # "x"}
    IN IF codes = {} THEN pos + (Len(fm) - k + 1)
       ELSE LET nxt == CHOOSE j \in codes : \A o \in codes : j <= o
                size == CodeSize(fm[nxt])
                at == pos + (nxt - k)
                aligned == IF size > 1 /\ (at % size) # 0 THEN at + (size - (at % size)) ELSE at
            IN calcsize_from(fm, nxt + 1, aligned + size)

calcsize(fm) == calcsize_from(fm, 1, 0)

\* def _compute_format(self)
_compute_format(lls, dsize, psize) ==
    LET total_length == (dsize + psize) * 8
        r == compute_format_loop([j \in 1..total_length |-> "x"], lls, dsize, 1)
        joined == SelectSeq(r.fmt, LAMBDA ch : ch # "None")
    IN IF r.exc # "" THEN [exc |-> r.exc, fmt |-> <<>>, msg |-> r.msg]
       ELSE IF calcsize(joined) # total_length
            THEN [exc |-> "AssertionError", fmt |-> joined, msg |-> ""]
            ELSE [exc |-> "", fmt |-> joined, msg |-> ""]

(***************************************************************************)
(* Structor.declare: the constructor is emitted as a list of statements.   *)
(* Every statement has the same shape; op says which line of code it is.   *)
(***************************************************************************)
Stmt(op, arg, args, val, n, msg) ==
    [op |-> op, arg |-> arg, args |-> args, val |-> val, n |-> n, msg |-> msg]

RECURSIVE insert_by_offset(_, _, _)
\* f put into the sorted list lls after every field whose offset is not larger
insert_by_offset(lls, f, dsize) ==
    IF lls = <<>> THEN <<f>>
    ELSE IF _slot_offset(lls[Len(lls)], dsize) <= _slot_offset(f, dsize)
         THEN Append(lls, f)
         ELSE Append(insert_by_offset(SubSeq(lls, 1, Len(lls) - 1), f, dsize), lls[Len(lls)])

\* sort_by_offset with the sort left out: the declaration order is kept
unsorted(lls, dsize) == lls

RECURSIVE sort_by_offset(_, _)
\* self.llfields.sort(key=lambda f: self._slot_offset(f)): a stable sort
sort_by_offset(lls, dsize) ==
    IF lls = <<>> THEN <<>>
    ELSE insert_by_offset(sort_by_offset(SubSeq(lls, 1, Len(lls) - 1), dsize),
                          lls[Len(lls)], dsize)

\* def _unpack_group(self, code, groupname, group)
_unpack_group(names, groupname, group) ==
    LET members == SelectSeq(group, LAMBDA f : ~is_void(f))
    IN Stmt("unpack", groupname, [j \in 1..Len(members) |-> names[members[j]]], NoneV, 0, "")

\* _unpack_nullable with the two flag values exchanged
unpack_nullable_inverted(groupname) ==
    Stmt("nullable", groupname, <<groupname \o "_is_null", groupname \o "_value">>,
         IntV(0), 1, "")

\* def _unpack_nullable(self, code, groupname): the statement
\*   if g is None: g_is_null = 1; g_value = 0  else: g_is_null = 0; g_value = g
\* val and n are what g_is_null gets when g is None and when it is not
_unpack_nullable(groupname) ==
    Stmt("nullable", groupname, <<groupname \o "_is_null", groupname \o "_value">>,
         IntV(1), 0, "")

\* def _field_text / _field_data / _field_struct / _field_list
_field_alloc(names, f, dsize) ==
    <<Stmt("alloc", names[f], <<>>, NoneV, _slot_offset(f, dsize), f.type)>>

\* def _field_primitive(self, code, f)
_field_primitive(names, f) ==
    IF f.hadExplicitDefault
    THEN <<Stmt("xor", names[f], <<>>, f.defaultValue, 0, "")>>
    ELSE <<>>

\* the if/elif chain of the loop over self.llfields in _decl_ctor
field_stmts(names, f, dsize) ==
    IF is_text(f) \/ is_data(f) \/ is_struct(f) \/ is_list(f) THEN _field_alloc(names, f, dsize)
    ELSE IF is_primitive(f) \/ is_enum(f) THEN _field_primitive(names, f)
    ELSE IF is_void(f) THEN <<>>
    ELSE <<Stmt("raise", "", <<>>, NoneV, 0, "Unsupported field type: " \o shortrepr(f))>>

RECURSIVE fields_loop(_, _, _, _)
fields_loop(names, lls, dsize, k) ==
    IF k > Len(lls) THEN <<>>
    ELSE field_stmts(names, lls[k], dsize) \o fields_loop(names, lls, dsize, k + 1)

\* the loop over self.groups in _decl_ctor
groups_loop(names, grps) ==
    [j \in 1..Len(grps) |->
        IF is_nullable(grps[j][1]) THEN _unpack_nullable(grps[j][2])
        ELSE _unpack_group(names, grps[j][2], grps[j][3])]

\* the names handed to builder.build
buildnames_of(names, lls) ==
    LET nonvoid == SelectSeq(lls, LAMBDA f : ~is_void(f))
    IN [j \in 1..Len(nonvoid) |-> names[nonvoid[j]]]

Range(sq) == {sq[j] : j \in 1..Len(sq)}

\* has_duplicates with the comparison left out
duplicates_unchecked(names) == FALSE

\* len(argnames) != len(set(argnames))
has_duplicates(names) == Len(names) # Cardinality(Range(names))

NoCtor == [kind |-> "none", params |-> <<>>, varargs |-> FALSE, body |-> <<>>]

\* _decl_unsupported with a fixed message in place of the captured one
decl_unsupported_generic(anames, msg) ==
    [kind |-> "stub",
     params |-> [j \in 1..Len(anames) |-> <<anames[j], NoneV>>],
     varargs |-> TRUE,
     body |-> <<[op |-> "raise", arg |-> "", args |-> <<>>, val |-> NoneV, n |-> 0,
                 msg |-> "Unsupported field type"]>>]

\* def _decl_unsupported(self, code)
_decl_unsupported(anames, msg) ==
    [kind |-> "stub",
     params |-> [j \in 1..Len(anames) |-> <<anames[j], NoneV>>],
     varargs |-> TRUE,
     body |-> <<Stmt("raise", "", <<>>, NoneV, 0, msg)>>]

\* which_stmts testing the truth of tag_value instead of "is not None"
which_stmts_truthy(tval) ==
    IF tval # None /\ tval[1] # 0
    THEN <<[op |-> "assign", arg |-> "__which__", args |-> <<>>, val |-> IntV(tval[1]),
            n |-> 0, msg |-> ""]>>
    ELSE <<>>

\* the statement  __which__ = {tag_value}
which_stmts(tval) ==
    IF tval # None THEN <<Stmt("assign", "__which__", <<>>, IntV(tval[1]), 0, "")>> ELSE <<>>

\* def _decl_ctor(self, code), after the sort: exc is the exception it raises
_decl_ctor(anames, prms, names, sorted, grps, fm, tval, dsize) ==
    IF has_duplicates(anames)
    THEN [exc |-> "ValueError", ctor |-> NoCtor]
    ELSE [exc |-> "",
          ctor |-> [kind |-> "ctor", params |-> prms, varargs |-> FALSE,
                    body |-> which_stmts(tval)
                             \o groups_loop(names, grps)
                             \o fields_loop(names, sorted, dsize, 1)
                             \o <<Stmt("build", "", buildnames_of(names, sorted), NoneV, 0, "")>>]]

(***************************************************************************)
(* The records Structor is given.                                          *)
(***************************************************************************)
RECURSIVE FieldSeqs(_)
\* the sequences of n distinct fields of the schema
FieldSeqs(n) ==
    IF n = 0 THEN {<<>>}
    ELSE UNION {{Append(fs, f) : f \in TopFields \ Range(fs)} : fs \in FieldSeqs(n - 1)}

\* a union arm has its discriminant at byte 10 and a discriminant value
TagChoices == {<<None, None>>, <<Some(10), Some(0)>>, <<Some(10), Some(2)>>}

\* the words of the data section and of the pointer section that f occupies
data_words(f) ==
    IF ~is_slot(f) \/ is_void(f) \/ is_pointer(f) THEN 0
    ELSE IF is_bool(f) THEN (f.offset \div 64) + 1
    ELSE ((f.offset + 1) * get_size(f) + 7) \div 8

ptrs_words(f) == IF is_slot(f) /\ is_pointer(f) THEN f.offset + 1 ELSE 0

Max(S) == IF S = {} THEN 0 ELSE CHOOSE m \in S : \A o \in S : o <= m

\* the schema compiler declares sections that hold every field of the record
data_needed(fs, toff) ==
    LET lls == init_fields(EmptySelf, fs, toff).llfields
    IN Max({data_words(lls[j]) : j \in 1..Len(lls)})

ptrs_needed(fs, toff) ==
    LET lls == init_fields(EmptySelf, fs, toff).llfields
    IN Max({ptrs_words(lls[j]) : j \in 1..Len(lls)})

(***************************************************************************)
(* Running the emitted constructor.  env maps the local names to values.   *)
(***************************************************************************)
RECURSIVE BitXor(_, _)
\* a ^ b on non-negative integers
BitXor(a, b) ==
    IF a = 0 THEN b
    ELSE IF b = 0 THEN a
    ELSE (((a % 2) + (b % 2)) % 2) + 2 * BitXor(a \div 2, b \div 2)

Fail(st, exc, msg) == [st EXCEPT !.exc = exc, !.msg = msg]

Index(sq, x) == CHOOSE j \in 1..Len(sq) : sq[j] = x

Bind(env, names, values) ==
    [nm \in DOMAIN env \cup Range(names) |->
        IF nm \in Range(names) THEN values[Index(names, nm)] ELSE env[nm]]

\* one statement of the constructor's body, in the state st of the invocation
exec_stmt(c, st) ==
    CASE c.op = "assign" -> [st EXCEPT !.env = Bind(@, <<c.arg>>, <<c.val>>)]
      [] c.op = "unpack" ->
            LET g == st.env[c.arg]
            IN IF g.t # "tuple" THEN Fail(st, "TypeError", "")
               ELSE IF Len(g.s) # Len(c.args) THEN Fail(st, "ValueError", "")
               ELSE [st EXCEPT !.env = Bind(@, c.args, g.s)]
      [] c.op = "nullable" ->
            LET g == st.env[c.arg]
            IN IF g = NoneV
               THEN [st EXCEPT !.env = Bind(@, c.args, <<c.val, IntV(0)>>)]
               ELSE [st EXCEPT !.env = Bind(@, c.args, <<IntV(c.n), g>>)]
      [] c.op = "alloc" ->
            [st EXCEPT !.env = Bind(@, <<c.arg>>, <<AllocV(c.msg, c.n, st.env[c.arg])>>)]
      [] c.op = "xor" ->
            LET v == st.env[c.arg]
            IN IF v.t = "int" /\ c.val.t = "int"
               THEN [st EXCEPT !.env = Bind(@, <<c.arg>>, <<IntV(BitXor(v.n, c.val.n))>>)]
               ELSE Fail(st, "TypeError", "")
      [] c.op = "raise" -> Fail(st, "NotImplementedError", c.msg)
      [] c.op = "build" ->
            IF Range(c.args) \subseteq DOMAIN st.env
            THEN [st EXCEPT !.built = [j \in 1..Len(c.args) |-> st.env[c.args[j]]],
                            !.done = TRUE]
            ELSE Fail(st, "NameError", "")

RECURSIVE exec_from(_, _, _)
\* the body from statement k on, until it returns or raises
exec_from(body, k, st) ==
    IF k > Len(body) \/ st.exc # "" \/ st.done THEN st
    ELSE exec_from(body, k + 1, exec_stmt(body[k], st))

\* the values a caller may pass for the argument of field f
ArgValues(f) ==
    CASE is_nullable(f) -> {IntV(0), IntV(7)}
      [] f = F_g -> {TupV(<<IntV(6), NoneV, StrV(2)>>)}
      [] f = F_u -> {TupV(<<IntV(1), IntV(2)>>)}
      [] is_group(f) -> {TupV(<<IntV(1), TupV(<<IntV(2), IntV(3)>>)>>)}
      [] is_void(f) -> {}
      [] is_pointer(f) -> {StrV(2)}
      [] f.type \in {"float32", "float64"} -> {FloatV(1)}
      [] OTHER -> {IntV(0), IntV(6)}

RECURSIVE ArgSeqs(_, _)
\* for every field from the k-th on: None (argument omitted) or Some(value)
ArgSeqs(fs, k) ==
    IF k > Len(fs) THEN {<<>>}
    ELSE {<<a>> \o rest : a \in {None} \cup {Some(v) : v \in ArgValues(fs[k])},
                         rest \in ArgSeqs(fs, k + 1)}

\* the call ctor(...): every parameter is bound to its argument or to its default
invoke(c, args) ==
    LET names == [j \in 1..Len(c.params) |-> c.params[j][1]]
        values == [j \in 1..Len(c.params) |->
                      IF args[j] # None THEN args[j][1] ELSE c.params[j][2]]
        env0 == Bind([nm \in {} |-> NoneV], names, values)
    IN exec_from(c.body, 1, [env |-> env0, exc |-> "", msg |-> "",
                             built |-> <<>>, done |-> FALSE])

NoCall == [args |-> <<>>, exc |-> "", msg |-> "", built |-> <<>>, done |-> FALSE]

(***************************************************************************)
(* The actions: Structor(...), declare(code), and a call of the emitted    *)
(* constructor.                                                            *)
(***************************************************************************)
BufferedIdle ==
    /\ buf = <<>> /\ i = 0 /\ recvd = <<>> /\ returned = <<>>
    /\ closed = FALSE

StructorInit ==
    /\ \E n \in 0..MaxFields : fields \in FieldSeqs(n)
    /\ \E tc \in TagChoices : tag_offset = tc[1] /\ tag_value = tc[2]
    /\ \E extra \in SlackChoices : data_size = data_needed(fields, tag_offset) + extra
    /\ \E extra \in SlackChoices : ptrs_size = ptrs_needed(fields, tag_offset) + extra
    /\ argnames = <<>> /\ params = <<>> /\ llfields = <<>>
    /\ llname = [f \in {} |-> ""] /\ groups = <<>>
    /\ fmt = None /\ unsupported = None
    /\ ctor = NoCtor /\ call = NoCall
    /\ pc = "new" /\ raised = ""

Init == StructorInit /\ BufferedIdle

\* def __init__(self, m, name, data_size, ptrs_size, fields, tag_offset, tag_value)
Construct ==
    /\ pc = "new"
    /\ LET sf == init_fields(EmptySelf, fields, tag_offset)
           cf == _compute_format(sf.llfields, data_size, ptrs_size)
       IN /\ params' = sf.params
          /\ llfields' = sf.llfields
          /\ llname' = sf.llname
          /\ groups' = sf.groups
          /\ argnames' = IF cf.exc = "Unsupported" THEN <<>> ELSE sf.argnames
          /\ unsupported' = IF cf.exc = "Unsupported" THEN Some(cf.msg) ELSE None
          /\ fmt' = IF cf.exc = "" THEN Some(cf.fmt) ELSE None
          /\ raised' = IF cf.exc = "Unsupported" THEN "" ELSE cf.exc
          /\ pc' = IF cf.exc \in {"", "Unsupported"} THEN "constructed" ELSE "init_failed"
    /\ UNCHANGED <<data_size, ptrs_size, fields, tag_offset, tag_value, ctor, call>>
    /\ UNCHANGED bvars

\* def declare(self, code)
Declare ==
    /\ pc = "constructed"
    /\ IF unsupported # None
       THEN /\ ctor' = _decl_unsupported(argnames, unsupported[1])
            /\ raised' = ""
            /\ UNCHANGED llfields
       ELSE LET sorted == sort_by_offset(llfields, data_size)
                r == _decl_ctor(argnames, params, llname, sorted, groups, fmt[1],
                                tag_value, data_size)
            IN /\ llfields' = sorted
               /\ ctor' = r.ctor
               /\ raised' = r.exc
    /\ pc' = IF raised' = "" THEN "declared" ELSE "declare_failed"
    /\ UNCHANGED <<data_size, ptrs_size, fields, tag_offset, tag_value, argnames, params,
                   llname, groups, fmt, unsupported, call>>
    /\ UNCHANGED bvars

\* a call of the emitted constructor
Call ==
    /\ pc = "declared"
    /\ \E args \in (IF ctor.kind = "stub" THEN {<<>>} ELSE ArgSeqs(fields, 1)) :
          LET st == invoke(ctor, args)
          IN call' = [args |-> args, exc |-> st.exc, msg |-> st.msg,
                      built |-> st.built, done |-> st.done]
    /\ pc' = "called"
    /\ UNCHANGED <<data_size, ptrs_size, fields, tag_offset, tag_value, argnames, params,
                   llfields, llname, groups, fmt, unsupported, ctor, raised>>
    /\ UNCHANGED bvars

Next == Construct \/ Declare \/ Call

Spec == Init /\ [][Next]_vars

(***************************************************************************)
(* BufferedSocket.  Strings are sequences of characters.  sock.recv gives  *)
(* any non-empty chunk of at most bufsize characters, or '' once the peer  *)
(* has closed the connection (and from then on).                           *)
(***************************************************************************)
NL == "\n"

Chars == {"a", NL}

Min(a, b) == IF a <= b THEN a ELSE b

\* the Python slice s[a:b] for 0 <= a
Slice(s, a, b) == IF a >= Min(b, Len(s)) THEN <<>> ELSE SubSeq(s, a + 1, Min(b, Len(s)))

\* the Python slice s[a:]
SliceFrom(s, a) == Slice(s, a, Len(s))

\* s.find('\n', start): an index from 0, or -1
find_nl(s, start) ==
    LET hits == {j \in start..(Len(s) - 1) : s[j + 1] = NL}
    IN IF hits = {} THEN -1 ELSE CHOOSE j \in hits : \A o \in hits : j <= o

RECURSIVE ChunksOfLen(_)
ChunksOfLen(n) ==
    IF n = 0 THEN {<<>>} ELSE {Append(c, ch) : c \in ChunksOfLen(n - 1), ch \in Chars}

\* what one sock.recv(bufsize) may give once got is received: '' is the closed connection
recv(got, eof) ==
    {<<>>} \cup (IF eof THEN {}
                 ELSE UNION {ChunksOfLen(n) : n \in 1..Min(MaxChunk, MaxStream - Len(got))})

RECURSIVE fillbuf_loop(_, _, _, _)
\* the while loop of _fillbuf: every way it can end, as [data, got, eof]
fillbuf_loop(size, data, got, eof) ==
    IF ~(Len(data) < size) THEN {[data |-> data, got |-> got, eof |-> eof]}
    ELSE UNION {IF part = <<>> THEN {[data |-> data, got |-> got, eof |-> TRUE]}
                ELSE fillbuf_loop(size, data \o part, got \o part, eof) : part \in recv(got, eof)}

\* _fillbuf that starts from an empty list and so forgets the unread rest
fillbuf_forgets_rest(size) == fillbuf_loop(size, <<>>, recvd, closed)

\* def _fillbuf(self, size): the outcomes, data being the new self.buf
_fillbuf(size) == fillbuf_loop(size, SliceFrom(buf, i), recvd, closed)

\* def read(self, size)
read(size) ==
    /\ LET j == i + size
       IN IF Len(buf) < j
          THEN \E r \in _fillbuf(size) :
                  /\ buf' = r.data
                  /\ i' = size
                  /\ returned' = returned \o Slice(r.data, 0, size)
                  /\ recvd' = r.got
                  /\ closed' = r.eof
          ELSE /\ i' = j
               /\ returned' = returned \o Slice(buf, i, j)
               /\ UNCHANGED <<buf, recvd, closed>>
    /\ UNCHANGED svars

RECURSIVE readline_loop(_, _, _)
\* the while loop of readline: every way it can end, as [line, rest, got, eof]
readline_loop(line, got, eof) ==
    UNION {IF part = <<>> THEN {[line |-> line, rest |-> <<>>, got |-> got, eof |-> TRUE]}
           ELSE LET j == find_nl(part, 0)
                IN IF j # -1
                   THEN {[line |-> line \o Slice(part, 0, j + 1),
                          rest |-> SliceFrom(part, j + 1),
                          got |-> got \o part, eof |-> eof]}
                   ELSE readline_loop(line \o part, got \o part, eof) : part \in recv(got, eof)}

\* def readline(self)
readline ==
    /\ LET j == find_nl(buf, i)
       IN IF j # -1
          THEN /\ i' = j + 1
               /\ returned' = returned \o Slice(buf, i, j + 1)
               /\ UNCHANGED <<buf, recvd, closed>>
          ELSE \E r \in readline_loop(SliceFrom(buf, i), recvd, closed) :
                  /\ buf' = r.rest
                  /\ i' = 0
                  /\ returned' = returned \o r.line
                  /\ recvd' = r.got
                  /\ closed' = r.eof
    /\ UNCHANGED svars

\* the Structor variables while only the socket is looked at
StructorIdle ==
    /\ fields = <<>> /\ tag_offset = None /\ tag_value = None
    /\ data_size = 0 /\ ptrs_size = 0
    /\ argnames = <<>> /\ params = <<>> /\ llfields = <<>>
    /\ llname = [f \in {} |-> ""] /\ groups = <<>>
    /\ fmt = None /\ unsupported = None
    /\ ctor = NoCtor /\ call = NoCall
    /\ pc = "new" /\ raised = ""

SockInit == StructorIdle /\ BufferedIdle

SockNext == (\E size \in 0..MaxRead : read(size)) \/ readline

SockSpec == SockInit /\ [][SockNext]_vars

(***************************************************************************)
(* What the claims are stated with.                                        *)
(***************************************************************************)
\* the declared extent of the record, in bytes
Total == (data_size + ptrs_size) * 8

\* the byte offset of a slot: declared offset times element size, moved past
\* the data section for a pointer
ByteOffset(f) == f.offset * get_size(f) + (IF is_pointer(f) THEN data_size * 8 ELSE 0)

\* the fields that cannot be laid out: a bool slot at top level or in a
\* group, or a group inside a group
OffendingFields(fs) ==
    {fs[k] : k \in {j \in 1..Len(fs) : is_bool(fs[j])}} \cup
    UNION {{g \in Range(allnodes(fs[k].typeId)) : is_bool(g) \/ is_group(g)} :
              k \in {j \in 1..Len(fs) : is_group(fs[j])}}

\* two top-level fields flatten to the same argument name
DupTop(fs) == \E a, b \in 1..Len(fs) : a # b /\ field_name(fs[a]) = field_name(fs[b])

\* the non-void slots among lls occupy pairwise disjoint byte ranges inside the extent
PairwiseDisjoint(lls) ==
    /\ \A a \in 1..Len(lls) : is_slot(lls[a]) /\ ~is_bool(lls[a])
    /\ \A a \in 1..Len(lls) : ~is_void(lls[a]) =>
          ByteOffset(lls[a]) + get_size(lls[a]) <= Total
    /\ \A a, b \in 1..Len(lls) : (a < b /\ ~is_void(lls[a]) /\ ~is_void(lls[b])) =>
          \/ ByteOffset(lls[a]) + get_size(lls[a]) <= ByteOffset(lls[b])
          \/ ByteOffset(lls[b]) + get_size(lls[b]) <= ByteOffset(lls[a])

\* the names the emitted constructor hands to builder.build
BuildArgs == ctor.body[Len(ctor.body)].args

\* the value of the k-th argument of the last call: the one passed, or the default
ArgOf(k) == IF call.args[k] # None THEN call.args[k][1] ELSE ctor.params[k][2]

\* the value the last call handed to builder.build under the name nm
PassedFor(nm) == call.built[Index(BuildArgs, nm)]

\* C1: whenever Structor lays a record out without raising Unsupported, the
\* format it computes decodes to exactly (data_size + ptrs_size) * 8 bytes:
\* the final assertion of _compute_format does not fail
C1_FormatCoversExtent ==
    (pc # "new" /\ unsupported = None) => (fmt # None /\ calcsize(fmt[1]) = Total)

\* C2: a record with an unsupported field (a bool slot, a low-level field that
\* is no slot) never makes Structor() or declare() raise; declare() emits a
\* stub exactly for such a record and a real constructor for the others; every
\* call of the stub raises NotImplementedError with the diagnostic captured at
\* layout time, verbatim, and the diagnostic names an offending field
C2_UnsupportedIsolated ==
    LET off == OffendingFields(fields)
    IN /\ (pc # "new" /\ off # {}) =>
             /\ pc \notin {"init_failed", "declare_failed"}
             /\ raised = ""
             /\ unsupported # None
             /\ \E f \in off : unsupported[1] = "Unsupported field type: " \o shortrepr(f)
       /\ (pc # "new" /\ off = {}) => unsupported = None
       /\ pc \in {"declared", "called"} =>
             /\ ctor.kind = "stub" <=> off # {}
             /\ ctor.kind = "ctor" <=> off = {}
       /\ (pc = "called" /\ off # {}) =>
             /\ call.exc = "NotImplementedError"
             /\ ~call.done
             /\ call.msg = unsupported[1]

\* C2 witness: the stub of a two-field record with a bool slot has been called
C2_Witness ==
    /\ pc = "called" /\ Len(fields) = 2 /\ F_b \in Range(fields)
    /\ ctor.kind = "stub"
    /\ call.exc = "NotImplementedError"
    /\ call.msg = "Unsupported field type: y: bool"

\* C3 as stated: for every record with two top-level fields of one argument
\* name, declare() fails with the duplicate-name error and emits no
\* constructor, real or stub, whatever else the record contains
C3_DuplicateAlwaysFatal ==
    (pc \in {"declared", "declare_failed", "called"} /\ DupTop(fields)) =>
        (pc = "declare_failed" /\ raised = "ValueError" /\ ctor = NoCtor)

\* C3 amended: for a record with two top-level fields of one argument name,
\* declare() fails with the duplicate-name error and emits nothing when the
\* layout succeeded; when the record also has an unsupported field, declare()
\* raises nothing and emits the stub
C3_DuplicateFatalWhenSupported ==
    (pc \in {"declared", "declare_failed", "called"} /\ DupTop(fields)) =>
        IF unsupported = None
        THEN pc = "declare_failed" /\ raised = "ValueError" /\ ctor = NoCtor
        ELSE pc # "declare_failed" /\ raised = "" /\ ctor.kind = "stub"

\* C3 witness: declare() has raised the duplicate-name error for a supported record
C3_Witness ==
    /\ pc = "declare_failed" /\ raised = "ValueError"
    /\ DupTop(fields) /\ unsupported = None /\ ctor = NoCtor

\* C4: for a union arm, the discriminator field is appended after all the
\* declared fields, is no argument of the constructor, and every call that
\* reaches builder.build hands it the literal tag_value for __which__; no call
\* finds __which__ (or any other name) unassigned
C4_DiscriminatorFixed ==
    /\ (pc = "constructed" /\ tag_offset # None) =>
          /\ llfields # <<>>
          /\ llfields[Len(llfields)] = tag_field(tag_offset[1])
          /\ llname[llfields[Len(llfields)]] = "__which__"
          /\ \A k \in 1..(Len(llfields) - 1) : llname[llfields[k]] # "__which__"
          /\ "__which__" \notin Range(argnames)
          /\ \A k \in 1..Len(params) : params[k][1] # "__which__"
    /\ (pc \in {"declared", "called"} /\ ctor.kind = "ctor" /\ tag_value # None) =>
          /\ \A k \in 1..Len(ctor.params) : ctor.params[k][1] # "__which__"
          /\ Cardinality({j \in 1..Len(BuildArgs) : BuildArgs[j] = "__which__"}) = 1
    /\ (pc = "called" /\ ctor.kind = "ctor" /\ tag_value # None) =>
          /\ call.exc # "NameError"
          /\ call.done => PassedFor("__which__") = IntV(tag_value[1])

\* C4 witness: the constructor of union arm 2 was called with a group
\* argument and handed 2 to builder.build
C4_Witness ==
    /\ pc = "called" /\ ctor.kind = "ctor" /\ call.done
    /\ tag_value = Some(2)
    /\ \E k \in 1..Len(fields) : fields[k] = F_g /\ call.args[k] # None
    /\ PassedFor("__which__") = IntV(2)

\* C5 as stated: for a nullable group argument, None gives presence 0 and
\* value 0 in the group's two low-level fields, any other X gives presence 1
\* and value X
C5_NullablePresenceFlag ==
    (pc = "called" /\ ctor.kind = "ctor" /\ call.done) =>
        \A k \in 1..Len(fields) : is_nullable(fields[k]) =>
            LET g == field_name(fields[k])
            IN IF ArgOf(k) = NoneV
               THEN PassedFor(g \o "_is_null") = IntV(0) /\ PassedFor(g \o "_value") = IntV(0)
               ELSE PassedFor(g \o "_is_null") = IntV(1) /\ PassedFor(g \o "_value") = ArgOf(k)

\* C5 amended: the flag is an is_null flag: None gives is_null 1 and value 0,
\* any other X (0 included) gives is_null 0 and value X
C5_NullableIsNullFlag ==
    (pc = "called" /\ ctor.kind = "ctor" /\ call.done) =>
        \A k \in 1..Len(fields) : is_nullable(fields[k]) =>
            LET g == field_name(fields[k])
            IN IF ArgOf(k) = NoneV
               THEN PassedFor(g \o "_is_null") = IntV(1) /\ PassedFor(g \o "_value") = IntV(0)
               ELSE PassedFor(g \o "_is_null") = IntV(0) /\ PassedFor(g \o "_value") = ArgOf(k)

\* C5 witness: the nullable group n was passed the value 0
C5_Witness ==
    /\ pc = "called" /\ ctor.kind = "ctor" /\ call.done
    /\ \E k \in 1..Len(fields) : fields[k] = F_n /\ call.args[k] = Some(IntV(0))
    /\ PassedFor("n_is_null") = IntV(0) /\ PassedFor("n_value") = IntV(0)

\* what builder.build must get for the slot f when the caller's value is a
ExpectedPassed(f, a) ==
    IF (is_primitive(f) \/ is_enum(f)) /\ f.hadExplicitDefault
    THEN IntV(BitXor(a.n, f.defaultValue.n))
    ELSE IF is_text(f) \/ is_data(f) \/ is_struct(f) \/ is_list(f)
    THEN AllocV(f.type, ByteOffset(f), a)
    ELSE a

\* C6: a primitive or enum slot with an explicit default D is handed on as
\* V xor D (0 when the argument is omitted, its default literal being D); a
\* slot without explicit default is handed on unchanged; text, data, struct
\* and list slots are never xor-ed, explicit default or not.  A call of a
\* constructor whose fields are all primitive or enum slots does reach
\* builder.build
C6_DefaultXor ==
    /\ (pc \in {"declared", "called"} /\ ctor.kind = "ctor") =>
          /\ \A k \in 1..Len(fields) :
                ((is_primitive(fields[k]) \/ is_enum(fields[k])) /\ fields[k].hadExplicitDefault)
                    => ctor.params[k][2] = fields[k].defaultValue
          /\ \A j \in 1..Len(ctor.body) : ctor.body[j].op = "xor" =>
                \E f \in Range(llfields) :
                    /\ is_primitive(f) \/ is_enum(f)
                    /\ f.hadExplicitDefault
                    /\ llname[f] = ctor.body[j].arg
                    /\ ctor.body[j].val = f.defaultValue
    /\ (pc = "called" /\ ctor.kind = "ctor"
            /\ \A k \in 1..Len(fields) : is_primitive(fields[k]) \/ is_enum(fields[k]))
          => call.done
    /\ (pc = "called" /\ ctor.kind = "ctor" /\ call.done) =>
          \A k \in 1..Len(fields) :
              LET f == fields[k]
                  members == SelectSeq(allnodes(f.typeId), LAMBDA g : ~is_void(g))
              IN /\ (is_slot(f) /\ ~is_void(f)) =>
                        PassedFor(field_name(f)) = ExpectedPassed(f, ArgOf(k))
                 /\ (is_slot(f) /\ (is_primitive(f) \/ is_enum(f)) /\ f.hadExplicitDefault
                        /\ call.args[k] = None) => PassedFor(field_name(f)) = IntV(0)
                 /\ (is_group(f) /\ ~is_nullable(f)) =>
                        \A j \in 1..Len(members) :
                            PassedFor(field_name(f) \o "_" \o field_name(members[j]))
                                = ExpectedPassed(members[j], ArgOf(k).s[j])

RECURSIVE GroupDefault(_)
\* the composite default of a group: its non-void fields' defaults, groups nested
GroupDefault(g) ==
    LET members == SelectSeq(allnodes(g.typeId), LAMBDA f : ~is_void(f))
    IN TupV([j \in 1..Len(members) |->
                IF is_group(members[j]) THEN GroupDefault(members[j])
                ELSE members[j].defaultValue])

\* C7: the default literal of the argument of a top-level group is the nested
\* composite of the group's own defaults, so that a call without the group
\* argument unpacks that composite
C7_GroupDefaultComposite ==
    /\ (pc \in {"declared", "called"} /\ ctor.kind = "ctor") =>
          \A k \in 1..Len(fields) : (is_group(fields[k]) /\ ~is_nullable(fields[k]))
              => ctor.params[k][2] = GroupDefault(fields[k])
    /\ (pc = "called" /\ ctor.kind = "ctor") =>
          \A k \in 1..Len(fields) :
              (is_group(fields[k]) /\ ~is_nullable(fields[k]) /\ call.args[k] = None)
                  => call.exc # "TypeError"

RECURSIVE FlatNames(_, _, _)
\* the names of the non-void slots of fs from the k-th on, depth first, each
\* with its chain of group names
FlatNames(fs, prefix, k) ==
    IF k > Len(fs) THEN <<>>
    ELSE LET f == fs[k]
             name == IF prefix # "" THEN prefix \o "_" \o field_name(f) ELSE field_name(f)
             here == IF is_group(f) THEN FlatNames(allnodes(f.typeId), name, 1)
                     ELSE IF is_void(f) THEN <<>>
                     ELSE <<name>>
         IN here \o FlatNames(fs, prefix, k + 1)

\* the names of the non-void low-level fields Structor() made of the declared fields
DeclaredLowLevelNames ==
    LET declared == IF tag_offset # None THEN SubSeq(llfields, 1, Len(llfields) - 1)
                    ELSE llfields
        nonvoid == SelectSeq(declared, LAMBDA f : ~is_void(f))
    IN [j \in 1..Len(nonvoid) |-> llname[nonvoid[j]]]

\* C8: flattening gives, in declaration order and depth first, one low-level
\* field per non-void slot, the slots of groups inside groups included, each
\* named with its full chain of group names
C8_FlattenAllSlots ==
    pc = "constructed" => DeclaredLowLevelNames = FlatNames(fields, "", 1)

RECURSIVE code_starts(_, _, _)
\* the codes of fm that are no pad byte, from the k-th on, each with the byte
\* at which it starts
code_starts(fm, k, pos) ==
    LET codes == {j \in k..Len(fm) : fm[j] # "x"}
    IN IF codes = {} THEN <<>>
       ELSE LET nxt == CHOOSE j \in codes : \A o \in codes : j <= o
                at == pos + (nxt - k)
            IN <<[code |-> fm[nxt], at |-> at]>>
                   \o code_starts(fm, nxt + 1, at + CodeSize(fm[nxt]))

\* C9: for a supported record whose non-void low-level fields are pairwise
\* disjoint and inside the extent, builder.build gets one value per non-void
\* low-level field, in ascending byte offset, the i-th being the value of the
\* field whose code is the i-th code of the format that is no pad byte
C9_BuildInOffsetOrder ==
    (pc \in {"declared", "called"} /\ ctor.kind = "ctor" /\ PairwiseDisjoint(llfields)) =>
        LET nv == SelectSeq(llfields, LAMBDA f : ~is_void(f))
            cs == code_starts(fmt[1], 1, 0)
            flat == FlatNames(fields, "", 1)
        IN /\ Len(BuildArgs) = Len(nv)
           /\ Len(cs) = Len(nv)
           /\ Len(nv) = Len(flat) + (IF tag_offset # None THEN 1 ELSE 0)
           /\ Range(BuildArgs) = Range(flat) \cup (IF tag_offset # None THEN {"__which__"} ELSE {})
           /\ \A j \in 1..Len(nv) :
                 /\ BuildArgs[j] = llname[nv[j]]
                 /\ cs[j].at = ByteOffset(nv[j])
                 /\ cs[j].code = get_fmt(nv[j])
           /\ \A j \in 1..(Len(nv) - 1) : ByteOffset(nv[j]) < ByteOffset(nv[j + 1])
           /\ (pc = "called" /\ call.done) =>
                 /\ Len(call.built) = Len(nv)
                 /\ \A k \in 1..Len(fields) : (is_slot(fields[k]) /\ ~is_void(fields[k])) =>
                       \E j \in 1..Len(cs) :
                           /\ cs[j].at = ByteOffset(fields[k])
                           /\ call.built[j] = ExpectedPassed(fields[k], ArgOf(k))

\* C9 witness: t was declared before x, and builder.build got x before t
C9_Witness ==
    /\ pc = "called" /\ ctor.kind = "ctor" /\ call.done
    /\ fields = <<F_t, F_x>>
    /\ BuildArgs = <<"x", "t">>
    /\ call.args = <<Some(StrV(2)), Some(IntV(6))>>
    /\ call.built = <<IntV(6), AllocV("text", 8, StrV(2))>>
    /\ data_size = 1

\* C10: after any sequence of read and readline calls, what they returned,
\* followed by the unread rest of the buffer, is what sock.recv delivered
C10_NoByteLost == returned \o SliceFrom(buf, i) = recvd

\* C10 witness: a line was returned, the connection then closed in the middle
\* of a read that got fewer characters than it asked for
C10_Witness ==
    /\ closed /\ \E k \in 1..Len(returned) : returned[k] = NL
    /\ Len(returned) >= 3 /\ i > Len(buf) /\ Len(buf) > 0

====
